---- MODULE Spec2Model ----
(***************************************************************************)
(* Quota-aware channel search of ytsearch: the API-key pool (getApiKeys,   *)
(* getValidApiKey, updateQuotaUsage, updateApiKey), the page-token cache   *)
(* (cleanupPageTokens, storePageToken, getPageToken),                       *)
(* YouTubeService.searchChannels in its static form (part_002) and in the  *)
(* form of the service instance (part_003), extractEmail, and the quota    *)
(* routes of the HTTP layer that write the key pool.                       *)
(*                                                                         *)
(* The repository holds three snapshots of lib/services/storage.ts that    *)
(* differ in the key-pool policy.  The variable impl says which snapshot    *)
(* a run executes:                                                          *)
(*   "part_001"   src/unnamed/part_001                                      *)
(*   "part_002"   src/unnamed/part_002 (lines 1-796)                        *)
(*   "storage_ts" src/lib/services/storage.ts (lines 710-1518)              *)
(***************************************************************************)
EXTENDS Integers, Sequences, FiniteSets, TLC

(* ---------------------------- bounds ----------------------------------- *)
NumKeys == 2
MaxDay == 1
MaxRecords == 2

MaxTicks == 3
MaxPage == 2
MaxItems == 2
MaxHalfDays == 3
MaxText == 3

(* ----------------------- program constants ----------------------------- *)
SafetyThreshold == 9900
oneHour == 60 * 60 * 1000
maxAttempts == 3
searchCost == 100
defaultResults == 10

Impls == {"part_001", "part_002", "storage_ts"}
Keys == 1..NumKeys
NoKey == 0

\* quotaUsed values of a freshly started pool, amounts a caller records and
\* values the quota/update route is asked to store.
InitQuota == {0, 9850}
Units == {50, 105}
ManualQuota == {9950, -5}
quotaLimit == 10000

VARIABLES
  impl,      \* which storage snapshot runs
  apiKeys,   \* data/api-keys.json: registration order -> ApiKey record
  today,     \* the Pacific calendar date of "now"
  nrec,      \* number of updateQuotaUsage calls made so far
  last,      \* the key-pool operation that completed last
  uq,        \* updateQuotaUsage calls in flight, one per concurrent caller
  clock,     \* Date.now(), in milliseconds
  env,       \* process.env: the NETLIFY and ENABLE_KV_STORE switches
  tokens,    \* the page-token stores: data/page-tokens.json and the KV blob
  lastTok,   \* the page-token operation that completed last
  puts,      \* the entries put less than an hour ago, the latest of each pair
  excluded,  \* ids in data/excluded-channels.json
  sc,        \* the searchChannels call: its locals, its result, what it did
  halfDay,   \* the time in half days since the Pacific midnight of day 0
  tz,        \* half days the server's local time is ahead of Pacific time
  usedAt,    \* key -> the half day its lastUsed timestamp falls in
  fp,        \* two filter sets and the search keys generated for them
  em,        \* an extractEmail input and what two calls on it returned
  svc        \* the YouTubeService instance: its last searchChannels call

poolVars == <<apiKeys, today, nrec, last>>
concVars == <<uq>>
tokenVars == <<clock, env, tokens, lastTok, puts>>
searchVars == <<excluded, sc>>
resetVars == <<halfDay, tz, usedAt>>
keyVars == <<fp>>
emailVars == <<em>>
instVars == <<svc>>
vars == <<impl, apiKeys, today, nrec, last, uq, clock, env, tokens, lastTok, puts, excluded, sc,
          halfDay, tz, usedAt, fp, em, svc>>

(* ------------------------------ key pool ------------------------------- *)

\* { ...record, ...updates }
Merge(r, u) == [f \in DOMAIN r |-> IF f \in DOMAIN u THEN u[f] ELSE r[f]]

FindLast(matching) ==
  IF matching = {} THEN 0
  ELSE CHOOSE i \in matching : \A j \in matching : j <= i

\* Array.prototype.find / findIndex: the first of the indices whose element
\* satisfies the callback, or NoKey
FindFirst(matching) ==
  IF matching = {} THEN NoKey
  ELSE CHOOSE i \in matching : \A j \in matching : i <= j

Usable(r) == r.isActive /\ r.quotaUsed < SafetyThreshold

shouldResetQuota(lastUsed, d) == lastUsed # d

\* part_001/part_002: reads the file and resets (and writes back) every key
\* last used on another Pacific day; storage_ts: returns the file as it is.
getApiKeys(im, ks, d) ==
  IF im = "storage_ts" THEN ks
  ELSE [k \in DOMAIN ks |->
          IF shouldResetQuota(ks[k].lastUsed, d)
          THEN Merge(ks[k], [quotaUsed |-> 0, isActive |-> TRUE, lastUsed |-> d])
          ELSE ks[k]]

updateApiKey(im, ks, d, id, updates) ==
  LET cur == getApiKeys(im, ks, d)
  IN IF id \notin DOMAIN cur THEN cur
     ELSE [cur EXCEPT ![id] = Merge(cur[id], updates)]

\* Apply a set of {id, updates} requests one after the other (they touch
\* different keys, so the order is immaterial).
RECURSIVE ApplyAll(_, _, _, _)
ApplyAll(im, ks, d, reqs) ==
  IF reqs = {} THEN ks
  ELSE LET r == CHOOSE x \in reqs : TRUE
       IN ApplyAll(im, updateApiKey(im, ks, d, r.id, r.updates), d, reqs \ {r})

\* updateQuotaUsage, part 1: what the call writes to the file ks once it has
\* read the pool as `snap` (part_001 and storage_ts write their whole snapshot
\* back, part_002 goes through updateApiKey, which reads the file again).
uqWrite(im, ks, d, snap, key, quotaUsed) ==
  CASE im = "part_001" ->
         LET newQuota == snap[key].quotaUsed + quotaUsed
         IN [snap EXCEPT ![key] = [quotaUsed |-> newQuota,
                                   lastUsed |-> d,
                                   isActive |-> newQuota < SafetyThreshold]]
    [] im = "part_002" ->
         LET newQuotaUsed == snap[key].quotaUsed + quotaUsed
         IN IF newQuotaUsed >= SafetyThreshold
            THEN updateApiKey(im, ks, d, key,
                              [quotaUsed |-> newQuotaUsed, isActive |-> FALSE,
                               lastUsed |-> d])
            ELSE updateApiKey(im, ks, d, key,
                              [quotaUsed |-> newQuotaUsed, lastUsed |-> d])
    [] OTHER ->
         LET k1 == [snap EXCEPT ![key].quotaUsed = quotaUsed, ![key].lastUsed = d]
         IN IF k1[key].quotaUsed >= SafetyThreshold
            THEN [k1 EXCEPT ![key].isActive = FALSE]
            ELSE k1

\* updateQuotaUsage, part 2 (part_002 only): the key it activates after it
\* has deactivated `key`, or NoKey.
uqNextKey(im, snap, key, quotaUsed) ==
  IF im = "part_002" /\ snap[key].quotaUsed + quotaUsed >= SafetyThreshold
  THEN LET OtherWithQuota(i) == i # key /\ snap[i].quotaUsed < SafetyThreshold
       IN IF \E i \in DOMAIN snap : OtherWithQuota(i)
          THEN CHOOSE i \in DOMAIN snap :
                 OtherWithQuota(i) /\ \A j \in DOMAIN snap : j < i => ~OtherWithQuota(j)
          ELSE NoKey
  ELSE NoKey

\* updateQuotaUsage run without interruption
updateQuotaUsage(im, ks, d, key, quotaUsed) ==
  LET cur == getApiKeys(im, ks, d) IN
  IF key \notin DOMAIN cur THEN cur
  ELSE LET written == uqWrite(im, cur, d, cur, key, quotaUsed)
           nextKey == uqNextKey(im, cur, key, quotaUsed)
       IN IF nextKey # NoKey
          THEN updateApiKey(im, written, d, nextKey, [isActive |-> TRUE])
          ELSE written

\* The possible results of one getValidApiKey() call: the file it leaves and
\* the key it returns (NoKey: it throws).
getValidApiKey(im, ks, d) ==
  LET cur == getApiKeys(im, ks, d)
      activeKey == FindFirst({i \in DOMAIN cur : Usable(cur[i])})
  IN
  IF activeKey # NoKey THEN {[keys |-> cur, ret |-> activeKey]}
  ELSE CASE im = "part_001" -> {[keys |-> cur, ret |-> NoKey]}
         [] im = "part_002" ->
              LET HasQuota(r) == r.quotaUsed < SafetyThreshold
                  availableKey == FindFirst({i \in DOMAIN cur : HasQuota(cur[i])})
                  \* Promise.all over updateApiKey calls, each a read-modify-write
                  \* of the whole file: whichever writes land last survive.
                  reqs == {[id |-> availableKey, updates |-> [isActive |-> TRUE]]} \cup
                          {[id |-> k, updates |-> [isActive |-> FALSE]] :
                             k \in DOMAIN cur \ {availableKey}}
              IN IF availableKey # NoKey
                 THEN {[keys |-> ApplyAll(im, cur, d, S), ret |-> availableKey] :
                         S \in SUBSET reqs \ {{}}}
                 ELSE {[keys |-> cur, ret |-> NoKey]}
         [] OTHER ->
              LET Resettable(r) == r.isActive /\ shouldResetQuota(r.lastUsed, d)
                  key == FindFirst({i \in DOMAIN cur : Resettable(cur[i])})
              IN IF key # NoKey
                 THEN {[keys |-> updateQuotaUsage(im, cur, d, key, 0), ret |-> key]}
                 ELSE {[keys |-> cur, ret |-> NoKey]}

\* GET /api/quota.  getYouTubeQuotaUsage probes every key with one
\* channels.list call (answers[k]: "ok", "quota" for a quota error, "error"
\* for any other error) and the route stores what it reports, one
\* updateApiKey per key under Promise.all: the writes that land last survive.
refreshQuota(im, ks, d, answers) ==
  LET cur == getApiKeys(im, ks, d)
      used(k) == IF answers[k] = "quota" THEN quotaLimit ELSE cur[k].quotaUsed
      remainingQuota(k) ==
        IF answers[k] = "quota" THEN 0
        ELSE IF quotaLimit - cur[k].quotaUsed > 0 THEN quotaLimit - cur[k].quotaUsed ELSE 0
      reqs == {[id |-> k,
                updates |-> [quotaUsed |-> used(k), lastUsed |-> d,
                             isActive |-> remainingQuota(k) > 0]] : k \in DOMAIN cur}
  IN {ApplyAll(im, cur, d, S) : S \in SUBSET reqs \ {{}}}

(* ------------------------------ daily reset ---------------------------- *)

\* toLocaleDateString('en-US', { timeZone: 'America/Los_Angeles' }) of a time
ptDate(h) == h \div 2

\* toDateString() of a time: the date on the server's own clock
toDateString(h, z) == (h + z) \div 2

\* resetQuotaUsage at time h: the stored keys and their lastUsed half days
resetQuotaUsage(im, ks, at, h, z) ==
  LET cur == getApiKeys(im, ks, ptDate(h))
      curAt == [k \in DOMAIN ks |-> IF cur[k] # ks[k] THEN h ELSE at[k]]
      localToday == toDateString(h, z)
  IN [keys |-> [k \in DOMAIN ks |->
                  IF toDateString(curAt[k], z) # localToday
                  THEN Merge(cur[k], [quotaUsed |-> 0, isActive |-> TRUE])
                  ELSE cur[k]],
      usedAt |-> curAt]

(* --------------------------- page-token cache -------------------------- *)

NoToken == ""
NoEntry == [key |-> <<>>, page |-> 0, token |-> NoToken, timestamp |-> 0]

\* What a read of the token store sees.  part_001/part_002 read
\* data/page-tokens.json; storage_ts reads the KV blob through
\* getStoredPageTokens, which yields {} when ENABLE_KV_STORE is off.
readTokens(im, e, st) ==
  IF im = "storage_ts" THEN (IF e.kvStore THEN st.kv ELSE <<>>) ELSE st.file

\* What a write of the token store changes.  storage_ts writes the KV blob
\* when NETLIFY is set (storePageTokens drops the write when the KV store is
\* off) and data/page-tokens.json otherwise.
writeTokens(im, e, st, x) ==
  IF im = "storage_ts"
  THEN IF e.netlify
       THEN (IF e.kvStore THEN [st EXCEPT !.kv = x] ELSE st)
       ELSE [st EXCEPT !.file = x]
  ELSE [st EXCEPT !.file = x]

FirstEntry(ts, key, page) ==
  IF \E i \in DOMAIN ts : ts[i].key = key /\ ts[i].page = page
  THEN ts[CHOOSE i \in DOMAIN ts :
            /\ ts[i].key = key /\ ts[i].page = page
            /\ \A j \in DOMAIN ts : j < i => ~(ts[j].key = key /\ ts[j].page = page)]
  ELSE NoEntry

cleanupPageTokensKeepAll(im, e, st, now) == st

cleanupPageTokens(im, e, st, now) ==
  LET ts == readTokens(im, e, st)
      Fresh(t) == now - t.timestamp < oneHour
      validTokens == SelectSeq(ts, Fresh)
  IN IF Len(validTokens) # Len(ts) THEN writeTokens(im, e, st, validTokens) ELSE st

storePageToken(im, e, st, now, searchKey, page, token) ==
  LET st1 == cleanupPageTokens(im, e, st, now)
      ts == readTokens(im, e, st1)
      Other(t) == ~(t.key = searchKey /\ t.page = page)
      newToken == [key |-> searchKey, page |-> page, token |-> token, timestamp |-> now]
  IN writeTokens(im, e, st1, Append(SelectSeq(ts, Other), newToken))

\* the stores getPageToken leaves and the entry whose token it returns
\* (NoEntry: it returns undefined/null)
getPageToken(im, e, st, now, searchKey, page) ==
  IF im = "storage_ts"
  THEN LET ts == readTokens(im, e, st)
           entry == FirstEntry(ts, searchKey, page)
           Other(t) == ~(t.key = searchKey /\ t.page = page)
       IN IF entry = NoEntry THEN [st |-> st, entry |-> NoEntry]
          ELSE IF now - entry.timestamp > oneHour
               THEN [st |-> writeTokens(im, e, st, SelectSeq(ts, Other)), entry |-> NoEntry]
               ELSE [st |-> st, entry |-> entry]
  ELSE LET st1 == cleanupPageTokens(im, e, st, now)
       IN [st |-> st1, entry |-> FirstEntry(readTokens(im, e, st1), searchKey, page)]

(* ------------------------------ extractEmail --------------------------- *)

\* A text is a sequence of lexical tokens: a word (a maximal run of \w
\* characters), one of the punctuation tokens below, a blank or a newline.
Words == {"contact", "Biz", "biz", "example", "com", "cooking", "videos"}
Blanks == {" ", "\n"}
AtSeps == {"[at]", "(at)", "@"}
DotSeps == {"[dot]", "(dot)", "."}
NoEmail == <<>>

RECURSIVE SeqsUpTo(_, _)
SeqsUpTo(S, n) ==
  IF n = 0 THEN {<<>>}
  ELSE LET shorter == SeqsUpTo(S, n - 1)
       IN shorter \cup {Append(q, x) : q \in {r \in shorter : Len(r) = n - 1}, x \in S}

\* String.prototype.toLowerCase on one token
toLowerCase(t) == IF t = "Biz" THEN "biz" ELSE t

\* [\w.-]
RunChar(t) == toLowerCase(t) \in Words \/ t \in {".", "-"}

RECURSIVE collapseBlanks(_)
collapseBlanks(text) ==
  IF Len(text) = 0 THEN <<>>
  ELSE IF Head(text) \in Blanks
       THEN IF Len(text) > 1 /\ text[2] \in Blanks
            THEN collapseBlanks(Tail(text))
            ELSE <<" ">> \o collapseBlanks(Tail(text))
       ELSE <<toLowerCase(Head(text))>> \o collapseBlanks(Tail(text))

\* String.prototype.trim
trim(text) ==
  LET solid == {i \in DOMAIN text : text[i] \notin Blanks}
  IN IF solid = {} THEN <<>>
     ELSE SubSeq(text, CHOOSE i \in solid : \A j \in solid : i <= j,
                       CHOOSE i \in solid : \A j \in solid : j <= i)

\* description.replace(/\n/g, ' ').replace(/\s+/g, ' ').toLowerCase().trim()
cleanDescription(description) == trim(collapseBlanks(description))

AllRun(text, from, to) == \A i \in from..to : i \in DOMAIN text /\ RunChar(text[i])

\* /[\w.-]+@[\w.-]+\.\w+/ : the matches <<start, end>> around the "@" at a.
\* The left run is taken from its leftmost start, the right run is greedy.
BasicMatchesAt(text, a) ==
  {<<st, d + 1>> : st \in {x \in 1..(a - 1) : AllRun(text, x, a - 1)},
                   d \in {y \in (a + 2)..(Len(text) - 1) :
                            /\ AllRun(text, a + 1, y - 1)
                            /\ text[y] = "."
                            /\ text[y + 1] \in Words}}

Leftmost(ms) == CHOOSE m \in ms : \A o \in ms : m[1] < o[1] \/ (m[1] = o[1] /\ m[2] >= o[2])

basicPattern(text) ==
  LET ats == {a \in DOMAIN text : text[a] = "@" /\ BasicMatchesAt(text, a) # {}}
  IN IF ats = {} THEN NoEmail
     ELSE LET a == CHOOSE x \in ats : \A y \in ats : x <= y
              m == Leftmost(BasicMatchesAt(text, a))
          IN SubSeq(text, m[1], m[2])

\* position of the token after an optional blank at i
SkipBlank(text, i) == IF i \in DOMAIN text /\ text[i] = " " THEN i + 1 ELSE i

\* the obfuscated pattern: run, separator, run, dot separator, word, each
\* separator between optional blanks.  <<start, end of first run, end of
\* second run, end>> of every way to match.
ObfuscatedMatches(text) ==
  {m \in {<<st, a, b, SkipBlank(text, SkipBlank(text, b + 1) + 1)>> :
             st \in DOMAIN text, a \in DOMAIN text, b \in DOMAIN text} :
     LET q1 == SkipBlank(text, m[2] + 1)
         b0 == SkipBlank(text, q1 + 1)
         q2 == SkipBlank(text, m[3] + 1)
     IN /\ m[1] <= m[2] /\ AllRun(text, m[1], m[2])
        /\ q1 \in DOMAIN text /\ text[q1] \in AtSeps \cup DotSeps
        /\ b0 <= m[3] /\ AllRun(text, b0, m[3])
        /\ q2 \in DOMAIN text /\ text[q2] \in DotSeps
        /\ m[4] \in DOMAIN text /\ text[m[4]] \in Words}

\* leftmost start, then the longest first run, then the longest second run
FirstObfuscated(ms) ==
  CHOOSE m \in ms : \A o \in ms :
    \/ m[1] < o[1]
    \/ m[1] = o[1] /\ m[2] > o[2]
    \/ m[1] = o[1] /\ m[2] = o[2] /\ m[3] >= o[3]

\* .replace(/\s+/g, '').replace(/\[at\]/gi, '@') ... .replace(/\(dot\)/gi, '.')
RECURSIVE cleanMatch(_)
cleanMatch(text) ==
  IF Len(text) = 0 THEN <<>>
  ELSE LET t == Head(text)
           rest == cleanMatch(Tail(text))
       IN IF t \in Blanks THEN rest
          ELSE IF t \in {"[at]", "(at)"} THEN <<"@">> \o rest
          ELSE IF t \in {"[dot]", "(dot)"} THEN <<".">> \o rest
          ELSE <<t>> \o rest

\* cleaned.match(/^[\w.-]+@[\w.-]+\.\w+$/i)
validEmail(text) ==
  \E a \in DOMAIN text :
    /\ text[a] = "@"
    /\ a > 1 /\ AllRun(text, 1, a - 1)
    /\ Len(text) >= a + 3
    /\ AllRun(text, a + 1, Len(text) - 2)
    /\ text[Len(text) - 1] = "."
    /\ text[Len(text)] \in Words

obfuscatedPatternNone(text) == NoEmail

obfuscatedPattern(text) ==
  LET ms == ObfuscatedMatches(text)
  IN IF ms = {} THEN NoEmail
     ELSE LET m == FirstObfuscated(ms)
              cleaned == cleanMatch(SubSeq(text, m[1], m[4]))
          IN IF validEmail(cleaned) THEN cleaned ELSE NoEmail

\* The branding address wins when it holds an "@".  Of the six patterns only
\* the basic and the obfuscated one decide: the labelled, business, domain
\* and bracket patterns and the last resort all need a bare address, which
\* the basic pattern, tried first, has then already returned.
extractEmail(description, brandingEmail) ==
  IF \E i \in DOMAIN brandingEmail : brandingEmail[i] = "@"
  THEN trim(brandingEmail)
  ELSE LET text == cleanDescription(description)
       IN IF basicPattern(text) # NoEmail THEN basicPattern(text)
          ELSE obfuscatedPattern(text)

EmIdle == [description |-> <<>>, brandingEmail |-> <<>>, first |-> NoEmail,
           second |-> NoEmail, calls |-> 0]

(* ------------------------------ searchChannels ------------------------- *)

\* the provider's channels, as channels.list reports them
ChannelIds == {"c1", "c2"}
NoCount == -1
Channel(id) ==
  IF id = "c1"
  THEN [id |-> "c1", subscriberCount |-> 50000, defaultLanguage |-> "en",
        description |-> <<"contact", " ", "Biz", "@", "example", ".", "com">>,
        email |-> <<>>]
  ELSE [id |-> "c2", subscriberCount |-> 500, defaultLanguage |-> "",
        description |-> <<"cooking", "\n", "videos">>,
        email |-> <<>>]

\* extractEmail of each channel's description and branding address
emailOf == [id \in ChannelIds |-> extractEmail(Channel(id).description, Channel(id).email)]

\* SearchFilters; 0 and "" stand for a field that is not set
Filt(q, minSubs, he, mr, pg) ==
  [query |-> q, country |-> "", language |-> "", category |-> "",
   minSubscribers |-> minSubs, maxSubscribers |-> 0, hasEmail |-> he,
   maxResults |-> mr, page |-> pg]
NoFilters == Filt("", 0, FALSE, 0, 0)

generateSearchKeyWithPage(filters) ==
  <<filters.query, filters.country, filters.language, filters.category, filters.page>>

\* base64 of the JSON of the four fields: one key per combination of them
generateSearchKey(filters) ==
  <<filters.query, filters.country, filters.language, filters.category>>

FpIdle == [a |-> NoFilters, b |-> NoFilters, keyA |-> <<>>, keyB |-> <<>>, pc |-> "idle"]

\* filters.maxResults || 10
desiredResults(filters) ==
  IF filters.maxResults # 0 THEN filters.maxResults ELSE defaultResults

passesFiltersAnyEmail(filters, ex, ch) ==
  /\ ch.subscriberCount # NoCount
  /\ ~(filters.minSubscribers # 0 /\ ch.subscriberCount < filters.minSubscribers)
  /\ ~(/\ filters.language # "" /\ filters.language # "all"
       /\ ch.defaultLanguage # "" /\ ch.defaultLanguage # filters.language)
  /\ ch.id \notin ex

\* the callback of channelsResponse.data.items.map: TRUE when it keeps the channel
passesFilters(filters, ex, ch) ==
  /\ ch.subscriberCount # NoCount
  /\ ~(filters.minSubscribers # 0 /\ ch.subscriberCount < filters.minSubscribers)
  /\ ~(/\ filters.language # "" /\ filters.language # "all"
       /\ ch.defaultLanguage # "" /\ ch.defaultLanguage # filters.language)
  /\ ch.id \notin ex
  /\ (filters.hasEmail => emailOf[ch.id] # NoEmail)

loopConditionUncapped(n, desired, attempts) == n < desired

\* the while condition
loopCondition(n, desired, attempts) == n < desired /\ attempts < maxAttempts

chargeSearchNot(quotaUsed) == quotaUsed

chargeSearchTwice(quotaUsed) == quotaUsed + 2 * searchCost

\* quotaUsed += 100
chargeSearch(quotaUsed) == quotaUsed + searchCost

chargeDetailsNot(quotaUsed, channelIds) == quotaUsed

\* quotaUsed += channelIds.length
chargeDetails(quotaUsed, channelIds) == quotaUsed + Len(channelIds)

sliceNone(all, desired) == all

\* allChannels.slice(0, desiredResults)
slice(all, desired) == SubSeq(all, 1, IF Len(all) < desired THEN Len(all) ELSE desired)

afterSearchThrow(items) == IF items = <<>> THEN "catch" ELSE "details"

\* if (!searchResponse.data.items?.length) break;
afterSearch(items) == IF items = <<>> THEN "finish" ELSE "details"

\* channels: the ids of the channels returned; emails: their email fields
NoResult == [channels |-> <<>>, emails |-> <<>>, hasMore |-> FALSE, quotaUsed |-> 0,
             currentPage |-> 0]

ScIdle ==
  [pc |-> "idle", filters |-> NoFilters, apiKey |-> NoKey, quotaUsed |-> 0,
   allChannels |-> <<>>, attempts |-> 0, currentPageToken |-> NoToken,
   channelIds |-> <<>>, nextPageToken |-> NoToken, result |-> NoResult,
   iters |-> <<>>, recorded |-> <<>>]

\* one entry of sc.iters per loop iteration: the token the search was sent
\* with, whether search.list answered, the ids sent to channels.list, how
\* channels.list answered, how many channels passed, the next token received,
\* whether the stored record of the call's key was usable when search.list
\* was sent
Iter(tok) == [pageToken |-> tok, search |-> "fail", ids |-> <<>>, details |-> "none",
              passed |-> 0, next |-> NoToken, usable |-> FALSE]

(* ------------- searchChannels of the YouTubeService instance ----------- *)

\* the body of the for loop over channelsResponse.data.items: TRUE when the
\* channel is pushed
instancePasses(filters, ch) ==
  /\ ~(filters.minSubscribers # 0 /\ ch.subscriberCount < filters.minSubscribers)
  /\ ~(filters.maxSubscribers # 0 /\ ch.subscriberCount > filters.maxSubscribers)

SvcIdle == [pc |-> "idle", filters |-> NoFilters, apiKey |-> NoKey, channels |-> <<>>,
            quotaUsed |-> 0]

(* --------------------- key-pool operations as actions ------------------ *)

Op(name, key, n, ret) ==
  [op |-> name, key |-> key, n |-> n, ret |-> ret]

\* arg: the (key, page, token) asked for; ret: the entry returned
TokOp(name, arg, ret) == [op |-> name, arg |-> arg, ret |-> ret]

Procs == {1, 2}
\* start: the key's quotaUsed when the calls were issued
UqIdle == [pc |-> "idle", key |-> NoKey, n |-> 0, snap |-> <<>>, start |-> 0]

FreshPools ==
  [Keys -> {[quotaUsed |-> q, isActive |-> TRUE, lastUsed |-> 0] : q \in InitQuota}]

PoolInit ==
  /\ impl \in Impls
  /\ today = 0
  /\ apiKeys \in FreshPools
  /\ nrec = 0
  /\ last = Op("init", NoKey, 0, NoKey)
  /\ uq = [p \in Procs |-> UqIdle]
  /\ clock = 0
  /\ env = [netlify |-> TRUE, kvStore |-> TRUE]
  /\ tokens = [file |-> <<>>, kv |-> <<>>]
  /\ lastTok = TokOp("init", NoEntry, NoEntry)
  /\ puts = {}
  /\ excluded = {}
  /\ sc = ScIdle
  /\ halfDay = 0
  /\ tz = 0
  /\ usedAt = [k \in Keys |-> 0]
  /\ fp = FpIdle
  /\ em = EmIdle
  /\ svc = SvcIdle

\* a caller asks for a credential
SelectActiveKey ==
  \E o \in getValidApiKey(impl, apiKeys, today) :
    /\ apiKeys' = o.keys
    /\ last' = Op("select", NoKey, 0, o.ret)
    /\ UNCHANGED <<impl, today, nrec, concVars, tokenVars, searchVars, resetVars, keyVars, emailVars, instVars>>

\* a caller records n units against key k
RecordUsage ==
  \E k \in Keys, n \in Units :
    /\ nrec < MaxRecords
    /\ nrec' = nrec + 1
    /\ apiKeys' = updateQuotaUsage(impl, apiKeys, today, k, n)
    /\ last' = Op("record", k, n, NoKey)
    /\ UNCHANGED <<impl, today, concVars, tokenVars, searchVars, resetVars, keyVars, emailVars, instVars>>

\* PATCH /api/keys {id, isActive}
PatchKey ==
  \E k \in Keys, b \in BOOLEAN :
    /\ apiKeys' = updateApiKey(impl, apiKeys, today, k, [isActive |-> b])
    /\ last' = Op("patch", k, 0, NoKey)
    /\ UNCHANGED <<impl, today, nrec, concVars, tokenVars, searchVars, resetVars, keyVars, emailVars, instVars>>

\* POST /api/quota/update {id, quotaUsed}
PostQuotaUpdate ==
  \E k \in Keys, q \in ManualQuota :
    /\ apiKeys' = updateApiKey(impl, apiKeys, today, k,
                               [quotaUsed |-> q, lastUsed |-> today])
    /\ last' = Op("quota_update", k, q, NoKey)
    /\ UNCHANGED <<impl, today, nrec, concVars, tokenVars, searchVars, resetVars, keyVars, emailVars, instVars>>

\* GET /api/quota
RefreshQuota ==
  \E answers \in [Keys -> {"ok", "quota", "error"}] :
    \E ks \in refreshQuota(impl, apiKeys, today, answers) :
      /\ apiKeys' = ks
      /\ last' = Op("refresh", NoKey, 0, NoKey)
      /\ UNCHANGED <<impl, today, nrec, concVars, tokenVars, searchVars, resetVars, keyVars, emailVars, instVars>>

\* midnight Pacific Time passes
NewDay ==
  /\ today < MaxDay
  /\ today' = today + 1
  /\ last' = Op("new_day", NoKey, 0, NoKey)
  /\ UNCHANGED <<impl, apiKeys, nrec, concVars, tokenVars, searchVars, resetVars, keyVars, emailVars, instVars>>

PoolNext ==
  \/ SelectActiveKey
  \/ RecordUsage
  \/ PatchKey
  \/ PostQuotaUpdate
  \/ RefreshQuota
  \/ NewDay

SpecPool == PoolInit /\ [][PoolNext]_vars

(* ------------- concurrent updateQuotaUsage calls (await points) -------- *)

ConcInit ==
  /\ impl \in Impls
  /\ today = 0
  /\ apiKeys \in FreshPools
  /\ nrec = 0
  /\ last = Op("init", NoKey, 0, NoKey)
  /\ \E ks \in [Procs -> Keys], ns \in [Procs -> Units] :
       uq = [p \in Procs |-> [pc |-> "read", key |-> ks[p], n |-> ns[p], snap |-> <<>>,
                              start |-> apiKeys[ks[p]].quotaUsed]]
  /\ clock = 0
  /\ env = [netlify |-> TRUE, kvStore |-> TRUE]
  /\ tokens = [file |-> <<>>, kv |-> <<>>]
  /\ lastTok = TokOp("init", NoEntry, NoEntry)
  /\ puts = {}
  /\ excluded = {}
  /\ sc = ScIdle
  /\ halfDay = 0
  /\ tz = 0
  /\ usedAt = [k \in Keys |-> 0]
  /\ fp = FpIdle
  /\ em = EmIdle
  /\ svc = SvcIdle

\* await getApiKeys()
UqRead(p) ==
  /\ uq[p].pc = "read"
  /\ LET cur == getApiKeys(impl, apiKeys, today)
     IN /\ apiKeys' = cur
        /\ uq' = [uq EXCEPT ![p].pc = "write", ![p].snap = cur]
  /\ UNCHANGED <<impl, today, nrec, last, tokenVars, searchVars, resetVars, keyVars, emailVars, instVars>>

\* await fs.writeFile(...) / await updateApiKey(apiKey.id, ...)
UqWrite(p) ==
  /\ uq[p].pc = "write"
  /\ apiKeys' = uqWrite(impl, apiKeys, today, uq[p].snap, uq[p].key, uq[p].n)
  /\ uq' = [uq EXCEPT ![p].pc =
              IF uqNextKey(impl, uq[p].snap, uq[p].key, uq[p].n) # NoKey
              THEN "next" ELSE "done"]
  /\ UNCHANGED <<impl, today, nrec, last, tokenVars, searchVars, resetVars, keyVars, emailVars, instVars>>

\* await updateApiKey(nextKey.id, { isActive: true })
UqActivateNext(p) ==
  /\ uq[p].pc = "next"
  /\ apiKeys' = updateApiKey(impl, apiKeys, today,
                             uqNextKey(impl, uq[p].snap, uq[p].key, uq[p].n),
                             [isActive |-> TRUE])
  /\ uq' = [uq EXCEPT ![p].pc = "done"]
  /\ UNCHANGED <<impl, today, nrec, last, tokenVars, searchVars, resetVars, keyVars, emailVars, instVars>>

ConcRead == \E p \in Procs : UqRead(p)
ConcWrite == \E p \in Procs : UqWrite(p)
ConcActivateNext == \E p \in Procs : UqActivateNext(p)

ConcNext ==
  \/ ConcRead
  \/ ConcWrite
  \/ ConcActivateNext

SpecConc == ConcInit /\ [][ConcNext]_vars

(* ----------------------- page-token cache operations ------------------- *)

TickMs == 30 * 60 * 1000
Fingerprints == {<<"cooking", "", "", "">>, <<"news", "US", "en", "">>}
TokenPages == 2..MaxPage
PageTokens == {"tA", "tB"}

TokenInit ==
  /\ impl \in Impls
  /\ today = 0
  /\ apiKeys = [k \in Keys |-> [quotaUsed |-> 0, isActive |-> TRUE, lastUsed |-> 0]]
  /\ nrec = 0
  /\ last = Op("init", NoKey, 0, NoKey)
  /\ uq = [p \in Procs |-> UqIdle]
  /\ clock = 0
  /\ env \in [netlify : BOOLEAN, kvStore : BOOLEAN]
  /\ tokens = [file |-> <<>>, kv |-> <<>>]
  /\ lastTok = TokOp("init", NoEntry, NoEntry)
  /\ puts = {}
  /\ excluded = {}
  /\ sc = ScIdle
  /\ halfDay = 0
  /\ tz = 0
  /\ usedAt = [k \in Keys |-> 0]
  /\ fp = FpIdle
  /\ em = EmIdle
  /\ svc = SvcIdle

\* put(fingerprint, page, token)
StorePageToken ==
  \E f \in Fingerprints, pg \in TokenPages, t \in PageTokens :
    /\ tokens' = storePageToken(impl, env, tokens, clock, f, pg, t)
    /\ lastTok' = TokOp("put", [key |-> f, page |-> pg, token |-> t, timestamp |-> clock],
                        NoEntry)
    /\ puts' = {e \in puts : ~(e.key = f /\ e.page = pg)} \cup
                {[key |-> f, page |-> pg, token |-> t, timestamp |-> clock]}
    /\ UNCHANGED <<impl, poolVars, concVars, clock, env, searchVars, resetVars, keyVars, emailVars, instVars>>

\* get(fingerprint, page)
GetPageToken ==
  \E f \in Fingerprints, pg \in TokenPages :
    LET r == getPageToken(impl, env, tokens, clock, f, pg)
    IN /\ tokens' = r.st
       /\ lastTok' = TokOp("get", [key |-> f, page |-> pg, token |-> NoToken,
                                   timestamp |-> clock], r.entry)
       /\ UNCHANGED <<impl, poolVars, concVars, clock, env, puts, searchVars, resetVars, keyVars, emailVars, instVars>>

\* half an hour passes
Tick ==
  /\ clock < MaxTicks * TickMs
  /\ clock' = clock + TickMs
  /\ lastTok' = TokOp("tick", NoEntry, NoEntry)
  /\ puts' = {e \in puts : (clock + TickMs) - e.timestamp < oneHour}
  /\ UNCHANGED <<impl, poolVars, concVars, env, tokens, searchVars, resetVars, keyVars, emailVars, instVars>>

TokenNext ==
  \/ StorePageToken
  \/ GetPageToken
  \/ Tick

SpecTokens == TokenInit /\ [][TokenNext]_vars

(* --------------------------- searchChannels steps ----------------------- *)

Queries == {"cooking"}
FilterInputs ==
  {Filt(q, m[1], m[2], mr, pg) :
     q \in Queries, m \in {<<0, FALSE>>, <<10000, TRUE>>}, mr \in {0, 1, 5}, pg \in {1, 2}}
  \cup {[Filt(q, 0, FALSE, 0, 1) EXCEPT !.maxSubscribers = 1000] : q \in Queries}
  \cup {Filt(q, 0, TRUE, 0, 1) : q \in Queries}

\* search.list answers: channel ids of distinct channels and a next token
ItemLists == {l \in SeqsUpTo(ChannelIds, MaxItems) : \A i, j \in DOMAIN l : i # j => l[i] # l[j]}

\* pools a search can meet: fresh ones, and pools whose keys were all
\* switched off (PATCH /api/keys) or all reached the threshold
SearchPools ==
  FreshPools \cup
  {[k \in Keys |-> [quotaUsed |-> q, isActive |-> FALSE, lastUsed |-> 0]] :
     q \in {0, SafetyThreshold}}

SearchInit ==
  /\ impl \in Impls
  /\ today = 0
  /\ apiKeys \in SearchPools
  /\ nrec = 0
  /\ last = Op("init", NoKey, 0, NoKey)
  /\ uq = [p \in Procs |-> UqIdle]
  /\ clock = 0
  /\ env = [netlify |-> TRUE, kvStore |-> TRUE]
  /\ \E cached \in {<<>>, <<[key |-> <<"cooking", "", "", "">>, page |-> 2,
                            token |-> "tB", timestamp |-> 0]>>} :
       tokens = writeTokens(impl, env, [file |-> <<>>, kv |-> <<>>], cached)
  /\ lastTok = TokOp("init", NoEntry, NoEntry)
  /\ puts = {}
  /\ excluded \in {{}, {"c1"}}
  /\ excluded # {} =>
       /\ \A k \in Keys : Usable(apiKeys[k]) /\ apiKeys[k].quotaUsed = 0
       /\ tokens = [file |-> <<>>, kv |-> <<>>]
  /\ sc = ScIdle
  /\ halfDay = 0
  /\ tz = 0
  /\ usedAt = [k \in Keys |-> 0]
  /\ fp = FpIdle
  /\ em = EmIdle
  /\ svc = SvcIdle

\* lines up to the while loop: getValidApiKey, then getPageToken when page > 1
StartSearch ==
  /\ sc.pc = "idle"
  /\ \E filters \in FilterInputs, o \in getValidApiKey(impl, apiKeys, today) :
       LET r == IF filters.page > 1
                THEN getPageToken(impl, env, tokens, clock, generateSearchKey(filters),
                                  filters.page)
                ELSE [st |-> tokens, entry |-> NoEntry]
       IN /\ apiKeys' = o.keys
          /\ IF o.ret = NoKey
             THEN /\ sc' = [sc EXCEPT !.pc = "threw", !.filters = filters]
                  /\ UNCHANGED tokens
             ELSE /\ tokens' = r.st
                  /\ sc' = [sc EXCEPT !.pc = "loop", !.filters = filters,
                                      !.apiKey = o.ret,
                                      !.currentPageToken = r.entry.token]
  /\ UNCHANGED <<impl, today, nrec, last, concVars, clock, env, lastTok, puts, excluded, resetVars, keyVars, emailVars, instVars>>

\* one search.list call and the lines after it, up to channels.list
SearchList ==
  /\ sc.pc = "loop"
  /\ \E ok \in BOOLEAN, items \in ItemLists, next \in {NoToken} \cup PageTokens :
       IF ~ok
       THEN /\ items = <<>> /\ next = NoToken
            /\ sc' = [sc EXCEPT !.pc = "catch",
                                !.iters = Append(@, [Iter(sc.currentPageToken) EXCEPT
                                                       !.usable = Usable(apiKeys[sc.apiKey])])]
       ELSE sc' = [sc EXCEPT
                     !.pc = afterSearch(items),
                     !.quotaUsed = chargeSearch(@),
                     !.channelIds = items,
                     !.nextPageToken = next,
                     !.iters = Append(@, [Iter(sc.currentPageToken) EXCEPT
                                            !.search = "ok", !.next = next,
                                            !.usable = Usable(apiKeys[sc.apiKey])])]
  /\ UNCHANGED <<impl, poolVars, concVars, tokenVars, excluded, resetVars, keyVars, emailVars, instVars>>

\* one channels.list call and the rest of the loop body
ChannelsList ==
  /\ sc.pc = "details"
  /\ \E answer \in {"ok", "empty", "fail"} :
       LET n == Len(sc.iters)
           desired == desiredResults(sc.filters)
           Passes(id) == passesFilters(sc.filters, excluded, Channel(id))
           filteredChannels == IF answer = "ok" THEN SelectSeq(sc.channelIds, Passes) ELSE <<>>
           all == sc.allChannels \o filteredChannels
           more == Len(all) < desired /\ sc.nextPageToken # NoToken
           log == [sc.iters EXCEPT ![n].ids = sc.channelIds, ![n].details = answer,
                                   ![n].passed = Len(filteredChannels)]
       IN IF answer = "fail"
          THEN sc' = [sc EXCEPT !.pc = "catch", !.iters = log]
          ELSE IF answer = "empty"
          THEN sc' = [sc EXCEPT !.pc = "finish", !.iters = log,
                                !.quotaUsed = chargeDetails(@, sc.channelIds)]
          ELSE sc' = [sc EXCEPT
                        !.iters = log,
                        !.quotaUsed = chargeDetails(@, sc.channelIds),
                        !.allChannels = all,
                        !.currentPageToken = IF more THEN sc.nextPageToken ELSE @,
                        !.attempts = IF more THEN @ + 1 ELSE @,
                        !.pc = IF more /\ loopCondition(Len(all), desired, sc.attempts + 1)
                               THEN "loop" ELSE "finish"]
  /\ UNCHANGED <<impl, poolVars, concVars, tokenVars, excluded, resetVars, keyVars, emailVars, instVars>>

\* after the loop: slice, updateQuotaUsage, hasMore, return
Return ==
  /\ sc.pc = "finish"
  /\ LET desired == desiredResults(sc.filters)
         channels == slice(sc.allChannels, desired)
     IN /\ apiKeys' = updateQuotaUsage(impl, apiKeys, today, sc.apiKey, sc.quotaUsed)
        /\ sc' = [sc EXCEPT
                    !.pc = "returned",
                    !.recorded = Append(@, [key |-> sc.apiKey, n |-> sc.quotaUsed]),
                    !.result = [channels |-> channels,
                                emails |-> [i \in DOMAIN channels |-> emailOf[channels[i]]],
                                hasMore |-> sc.currentPageToken # NoToken
                                            /\ Len(channels) = desired,
                                quotaUsed |-> sc.quotaUsed,
                                currentPage |-> sc.filters.page]]
  /\ UNCHANGED <<impl, today, nrec, last, concVars, tokenVars, excluded, resetVars, keyVars, emailVars, instVars>>

\* the catch block: updateQuotaUsage, then throw
Catch ==
  /\ sc.pc = "catch"
  /\ apiKeys' = updateQuotaUsage(impl, apiKeys, today, sc.apiKey, sc.quotaUsed)
  /\ sc' = [sc EXCEPT !.pc = "threw",
                      !.recorded = Append(@, [key |-> sc.apiKey, n |-> sc.quotaUsed])]
  /\ UNCHANGED <<impl, today, nrec, last, concVars, tokenVars, excluded, resetVars, keyVars, emailVars, instVars>>

\* another searchChannels call, running at the same time, reaches its
\* updateQuotaUsage while this call is between two loop iterations
OtherCallRecords ==
  /\ sc.pc = "loop"
  /\ sc.iters # <<>>
  /\ nrec = 0
  /\ \E k \in Keys, n \in Units :
       apiKeys' = updateQuotaUsage(impl, apiKeys, today, k, n)
  /\ nrec' = 1
  /\ UNCHANGED <<impl, today, last, concVars, tokenVars, searchVars, resetVars, keyVars, emailVars, instVars>>

SearchNext ==
  \/ StartSearch
  \/ SearchList
  \/ ChannelsList
  \/ Return
  \/ Catch

SpecSearch == SearchInit /\ [][SearchNext]_vars

\* a searchChannels call on a fresh pool with an empty token cache, and a
\* second call that records its usage in the meantime
SearchConcInit ==
  /\ SearchInit
  /\ apiKeys \in FreshPools
  /\ tokens = [file |-> <<>>, kv |-> <<>>]

SearchConcNext ==
  \/ StartSearch
  \/ SearchList
  \/ ChannelsList
  \/ Return
  \/ Catch
  \/ OtherCallRecords

SpecSearchConc == SearchConcInit /\ [][SearchConcNext]_vars

(* ------------------- searchChannels of the instance, steps ------------- *)

InstanceFilters ==
  {[Filt(q, m, he, 0, 1) EXCEPT !.maxSubscribers = mx] :
     q \in Queries, m \in {0, 10000}, he \in BOOLEAN, mx \in {0, 1000}}

InstanceInit ==
  /\ impl \in Impls
  /\ today = 0
  /\ apiKeys \in FreshPools
  /\ nrec = 0
  /\ last = Op("init", NoKey, 0, NoKey)
  /\ uq = [p \in Procs |-> UqIdle]
  /\ clock = 0
  /\ env = [netlify |-> TRUE, kvStore |-> TRUE]
  /\ tokens = [file |-> <<>>, kv |-> <<>>]
  /\ lastTok = TokOp("init", NoEntry, NoEntry)
  /\ puts = {}
  /\ excluded \in SUBSET ChannelIds
  /\ sc = ScIdle
  /\ halfDay = 0
  /\ tz = 0
  /\ usedAt = [k \in Keys |-> 0]
  /\ fp = FpIdle
  /\ em = EmIdle
  /\ svc = SvcIdle

\* youtubeService.searchChannels(query, filters, page), as POST /api/search
\* calls it: one search.list, one channels.list, the filter loop and
\* updateQuotaUsage, or the catch block
InstanceSearch ==
  /\ nrec < MaxRecords
  /\ nrec' = nrec + 1
  /\ \E filters \in InstanceFilters, o \in getValidApiKey(impl, apiKeys, today),
        answer \in {"ok", "searchFail", "detailsFail"}, items \in ItemLists :
       IF o.ret = NoKey
       THEN /\ apiKeys' = o.keys
            /\ svc' = [SvcIdle EXCEPT !.pc = "threw", !.filters = filters]
       ELSE LET Passes(id) == instancePasses(filters, Channel(id))
                quotaUsed == CASE answer = "searchFail" -> 0
                               [] answer = "detailsFail" -> searchCost
                               [] OTHER -> searchCost + Len(items)
            IN /\ answer = "detailsFail" => items # <<>>
               /\ answer = "searchFail" => items = <<>>
               /\ apiKeys' = updateQuotaUsage(impl, o.keys, today, o.ret, quotaUsed)
               /\ svc' = [pc |-> IF answer = "ok" THEN "returned" ELSE "threw",
                          filters |-> filters, apiKey |-> o.ret,
                          channels |-> IF answer = "ok" THEN SelectSeq(items, Passes)
                                       ELSE <<>>,
                          quotaUsed |-> quotaUsed]
  /\ UNCHANGED <<impl, today, last, concVars, tokenVars, searchVars, resetVars, keyVars, emailVars>>

InstanceNext == InstanceSearch

SpecInstance == InstanceInit /\ [][InstanceNext]_vars

(* ----------------------------- daily reset steps ----------------------- *)

ResetInit ==
  /\ impl \in Impls
  /\ today = 0
  /\ apiKeys \in FreshPools
  /\ nrec = 0
  /\ last = Op("init", NoKey, 0, NoKey)
  /\ uq = [p \in Procs |-> UqIdle]
  /\ clock = 0
  /\ env = [netlify |-> TRUE, kvStore |-> TRUE]
  /\ tokens = [file |-> <<>>, kv |-> <<>>]
  /\ lastTok = TokOp("init", NoEntry, NoEntry)
  /\ puts = {}
  /\ excluded = {}
  /\ sc = ScIdle
  /\ halfDay = 0
  /\ tz \in {0, 1}
  /\ usedAt = [k \in Keys |-> 0]
  /\ fp = FpIdle
  /\ em = EmIdle
  /\ svc = SvcIdle

\* resetQuotaUsage(); last.n is the Pacific date of the call and last.ret
\* flips, so that two calls in a row differ
ResetQuotaUsage ==
  LET r == resetQuotaUsage(impl, apiKeys, usedAt, halfDay, tz)
  IN /\ apiKeys' = r.keys
     /\ usedAt' = r.usedAt
     /\ last' = Op("reset", NoKey, today, IF last.op = "reset" THEN 1 - last.ret ELSE 0)
     /\ UNCHANGED <<impl, today, nrec, concVars, tokenVars, searchVars, halfDay, tz, keyVars, emailVars, instVars>>

\* updateQuotaUsage(key, n) with its timestamps
UseKey ==
  /\ nrec < MaxRecords
  /\ \E k \in Keys, n \in Units :
       /\ apiKeys' = updateQuotaUsage(impl, apiKeys, today, k, n)
       /\ usedAt' = [j \in Keys |->
                       IF j = k \/ apiKeys'[j].lastUsed # apiKeys[j].lastUsed
                       THEN halfDay ELSE usedAt[j]]
       /\ last' = Op("record", k, n, NoKey)
  /\ nrec' = nrec + 1
  /\ UNCHANGED <<impl, today, concVars, tokenVars, searchVars, halfDay, tz, keyVars, emailVars, instVars>>

\* half a day passes
HalfDayPasses ==
  /\ halfDay < MaxHalfDays
  /\ halfDay' = halfDay + 1
  /\ today' = ptDate(halfDay + 1)
  /\ UNCHANGED <<impl, apiKeys, nrec, last, concVars, tokenVars, searchVars, tz, usedAt, keyVars, emailVars, instVars>>

ResetNext ==
  \/ ResetQuotaUsage
  \/ UseKey
  \/ HalfDayPasses

SpecReset == ResetInit /\ [][ResetNext]_vars

(* ---------------------------- search-key steps ------------------------- *)

KeyFilters ==
  {[Filt(q, m, he, mr, pg) EXCEPT !.country = c, !.language = l] :
     q \in {"cooking", "news"}, c \in {"", "US"}, l \in {"", "en"},
     m \in {0, 10000}, he \in BOOLEAN, mr \in {0, 5}, pg \in {1, 2}}

KeyInit ==
  /\ impl \in Impls
  /\ today = 0
  /\ apiKeys = [k \in Keys |-> [quotaUsed |-> 0, isActive |-> TRUE, lastUsed |-> 0]]
  /\ nrec = 0
  /\ last = Op("init", NoKey, 0, NoKey)
  /\ uq = [p \in Procs |-> UqIdle]
  /\ clock = 0
  /\ env = [netlify |-> TRUE, kvStore |-> TRUE]
  /\ tokens = [file |-> <<>>, kv |-> <<>>]
  /\ lastTok = TokOp("init", NoEntry, NoEntry)
  /\ puts = {}
  /\ excluded = {}
  /\ sc = ScIdle
  /\ halfDay = 0
  /\ tz = 0
  /\ usedAt = [k \in Keys |-> 0]
  /\ fp = FpIdle
  /\ em = EmIdle
  /\ svc = SvcIdle

\* generateSearchKey on two filter sets
GenerateSearchKeys ==
  /\ fp.pc = "idle"
  /\ \E a \in KeyFilters, b \in KeyFilters :
       fp' = [a |-> a, b |-> b, keyA |-> generateSearchKey(a),
              keyB |-> generateSearchKey(b), pc |-> "done"]
  /\ UNCHANGED <<impl, poolVars, concVars, tokenVars, searchVars, resetVars, emailVars, instVars>>

KeyNext == GenerateSearchKeys

SpecKey == KeyInit /\ [][KeyNext]_vars

(* ---------------------------- extractEmail steps ----------------------- *)

TextAlphabet == {"contact", "example", "com", " ", "@", ".", "[at]", "[dot]"}
Descriptions ==
  SeqsUpTo(TextAlphabet, MaxText) \cup
  {<<"contact", " ", "[at]", " ", "example", " ", "[dot]", " ", "com">>,
   <<"contact", "(at)", "example", "(dot)", "com">>,
   <<"cooking", "\n", "videos">>}
BrandingEmails ==
  {<<>>, <<"biz", "@", "example", ".", "com">>, <<" ", "Biz", "@", "example", " ">>,
   <<"biz">>}

EmailInit ==
  /\ impl \in Impls
  /\ today = 0
  /\ apiKeys = [k \in Keys |-> [quotaUsed |-> 0, isActive |-> TRUE, lastUsed |-> 0]]
  /\ nrec = 0
  /\ last = Op("init", NoKey, 0, NoKey)
  /\ uq = [p \in Procs |-> UqIdle]
  /\ clock = 0
  /\ env = [netlify |-> TRUE, kvStore |-> TRUE]
  /\ tokens = [file |-> <<>>, kv |-> <<>>]
  /\ lastTok = TokOp("init", NoEntry, NoEntry)
  /\ puts = {}
  /\ excluded = {}
  /\ sc = ScIdle
  /\ halfDay = 0
  /\ tz = 0
  /\ usedAt = [k \in Keys |-> 0]
  /\ fp = FpIdle
  /\ \E d \in Descriptions, b \in BrandingEmails :
       em = [EmIdle EXCEPT !.description = d, !.brandingEmail = b]
  /\ svc = SvcIdle

\* the first extractEmail(description, brandingEmail)
ExtractEmail ==
  /\ em.calls = 0
  /\ em' = [em EXCEPT !.first = extractEmail(em.description, em.brandingEmail),
                      !.calls = 1]
  /\ UNCHANGED <<impl, poolVars, concVars, tokenVars, searchVars, resetVars, keyVars, instVars>>

\* a second call with the same arguments
ExtractEmailAgain ==
  /\ em.calls = 1
  /\ em' = [em EXCEPT !.second = extractEmail(em.description, em.brandingEmail),
                      !.calls = 2]
  /\ UNCHANGED <<impl, poolVars, concVars, tokenVars, searchVars, resetVars, keyVars, instVars>>

EmailNext ==
  \/ ExtractEmail
  \/ ExtractEmailAgain

SpecEmail == EmailInit /\ [][EmailNext]_vars

(* ---------------------------- key-pool claims -------------------------- *)

\* C1: the credential getValidApiKey returns is, in the stored pool it leaves
\* behind, active and below the safety threshold (a reset applied in the call
\* makes it so).
C1_ReturnedKeyUsable ==
  (last.op = "select" /\ last.ret # NoKey) => Usable(apiKeys[last.ret])

\* the quotaUsed that updateQuotaUsage builds on: 0 if the lazy daily reset
\* applies to the key in this call
ResetDue(k) == impl # "storage_ts" /\ shouldResetQuota(apiKeys[k].lastUsed, today)
BaseQuota(k) == IF ResetDue(k) THEN 0 ELSE apiKeys[k].quotaUsed

\* C2: recordUsage(id, n) leaves quotaUsed = previous quotaUsed + n, and no
\* operation other than the daily reset makes a quotaUsed smaller.
C2_RecordUsageAccumulates ==
  [][ /\ last'.op = "record" =>
           apiKeys'[last'.key].quotaUsed = BaseQuota(last'.key) + last'.n
      /\ \A k \in Keys :
           apiKeys'[k].quotaUsed < apiKeys[k].quotaUsed =>
             (shouldResetQuota(apiKeys[k].lastUsed, today) /\ apiKeys'[k].quotaUsed = 0)
    ]_vars

\* C4: after recordUsage the credential is inactive if its quotaUsed is at or
\* above 9900, it is not deactivated if its quotaUsed is below 9900, and
\* 9850 + 105 gives quotaUsed = 9955 and isActive = FALSE.
C4_DeactivatedAtThreshold ==
  [][ last'.op = "record" =>
        LET k == last'.key
            after == apiKeys'[k]
            wasActive == ResetDue(k) \/ apiKeys[k].isActive
        IN /\ after.quotaUsed >= SafetyThreshold => ~after.isActive
           /\ (after.quotaUsed < SafetyThreshold /\ wasActive) => after.isActive
           /\ (~ResetDue(k) /\ apiKeys[k].quotaUsed = 9850 /\ last'.n = 105) =>
                (after.quotaUsed = 9955 /\ ~after.isActive)
    ]_vars

\* C3: two concurrent recordUsage calls on one credential lose no update: when
\* both are done, quotaUsed is the initial quotaUsed plus both amounts.
C3_NoLostUpdate ==
  \A p, q \in Procs :
    (p # q /\ uq[p].pc = "done" /\ uq[q].pc = "done" /\ uq[p].key = uq[q].key) =>
      apiKeys[uq[p].key].quotaUsed = uq[p].start + uq[p].n + uq[q].n

\* the pool after the lazy reset pass: every key last used on another
\* Pacific day is at quotaUsed 0 and active
LazyReset(ks, d) ==
  [k \in DOMAIN ks |->
     IF ks[k].lastUsed # d
     THEN [ks[k] EXCEPT !.quotaUsed = 0, !.isActive = TRUE]
     ELSE ks[k]]

NoneUsable(ks, d) == \A k \in DOMAIN ks : ~Usable(LazyReset(ks, d)[k])

\* C11: when no key is usable even after the lazy reset pass, a
\* searchChannels call fails at getValidApiKey: it makes no provider call,
\* records nothing and leaves every key's quotaUsed as it was.
C11_QuotaExhaustedNoCall ==
  [][(sc.pc = "idle" /\ sc'.pc # "idle" /\ NoneUsable(apiKeys, today)) =>
        /\ sc'.pc = "threw"
        /\ sc'.iters = <<>>
        /\ sc'.recorded = <<>>
        /\ \A k \in Keys : apiKeys'[k].quotaUsed = apiKeys[k].quotaUsed]_vars

\* C12: getValidApiKey scans the keys in registration order: when the pool
\* it reads holds a usable key it returns the first such key, and whenever it
\* returns a key no key registered before it is usable.
C12_FirstUsableInOrder ==
  [][(last'.op = "select" /\ last'.ret # NoKey) =>
        LET cur == getApiKeys(impl, apiKeys, today)
            usable == {k \in Keys : Usable(cur[k])}
        IN /\ \A k \in usable : last'.ret <= k
           /\ usable # {} => last'.ret \in usable
           /\ \A j \in Keys : j < last'.ret => ~Usable(apiKeys'[j])]_vars

\* C12 witness: the first key is at the threshold and the second was returned
C12_Witness ==
  /\ last.op = "select"
  /\ last.ret = 2
  /\ apiKeys[1].quotaUsed >= SafetyThreshold
  /\ Usable(apiKeys[2])

\* C14: once updateQuotaUsage has brought the usage of a key to the threshold
\* or past it, the getValidApiKey that follows never returns that key, and
\* returns a usable key whenever the pool holds one.
C14_RotatesAfterExhaustion ==
  [][(last'.op = "record" /\ BaseQuota(last'.key) + last'.n >= SafetyThreshold) =>
        \A o \in getValidApiKey(impl, apiKeys', today) :
           /\ o.ret # last'.key
           /\ (\E j \in Keys : Usable(getApiKeys(impl, apiKeys', today)[j]))
                 => (o.ret # NoKey /\ Usable(o.keys[o.ret]))]_vars

\* C13: the daily reset is idempotent within one Pacific day: applying
\* resetQuotaUsage again at once changes nothing, and so does a second call
\* made later on the same Pacific day with no other pool operation between.
C13_ResetIdempotent ==
  [][(last'.op = "reset" /\ last' # last) =>
        /\ resetQuotaUsage(impl, apiKeys', usedAt', halfDay, tz).keys = apiKeys'
        /\ (last.op = "reset" /\ last.n = today) => apiKeys' = apiKeys]_vars

\* C21: every credential record has quotaUsed >= 0 in every reachable state
\* of the pool, whatever selections, usage records, resets, manual quota
\* updates and quota refreshes came before.
C21_QuotaUsedNonNegative ==
  \A k \in Keys : apiKeys[k].quotaUsed >= 0

\* C22: selecting a key, recording usage and refreshing the quota change the
\* usability of a credential only in two ways: a usable credential becomes
\* unusable when usage recorded on it brings it to the threshold, and an
\* unusable one becomes usable when it was last used on an earlier Pacific
\* day (the lazy reset).
C22_OnlyTwoTransitions ==
  [][last'.op \in {"select", "record", "refresh"} =>
       \A k \in Keys :
          /\ (Usable(apiKeys[k]) /\ ~Usable(apiKeys'[k])) =>
                /\ last'.op = "record" /\ last'.key = k
                /\ apiKeys'[k].quotaUsed >= SafetyThreshold
          /\ (~Usable(apiKeys[k]) /\ Usable(apiKeys'[k])) =>
                shouldResetQuota(apiKeys[k].lastUsed, today)]_vars

\* C28: updateQuotaUsage(key, n) changes the record of that key only: every
\* other record keeps the quotaUsed, isActive and lastUsed the call read for
\* it, also when the call takes the key to the threshold.
C28_RecordTouchesOneKey ==
  [][last'.op = "record" =>
       \A j \in Keys \ {last'.key} :
          apiKeys'[j] = getApiKeys(impl, apiKeys, today)[j]]_vars

(* --------------------------- page-token claims ------------------------- *)

\* C6: getPageToken never returns the token of an entry created more than one
\* hour ago, whatever puts (also for other keys) and gets came before.
C6_NoStaleToken ==
  (lastTok.op = "get" /\ lastTok.ret # NoEntry) =>
     clock - lastTok.ret.timestamp <= oneHour

\* C6 witness: a get returned a token while an entry of another key, put
\* later than one that has expired, is in the store
C6_Witness ==
  /\ lastTok.op = "get"
  /\ lastTok.ret # NoEntry
  /\ clock > oneHour
  /\ \E i \in DOMAIN readTokens(impl, env, tokens) :
       readTokens(impl, env, tokens)[i].key # lastTok.ret.key

NoDuplicatePair(ts) ==
  \A i, j \in DOMAIN ts : (ts[i].key = ts[j].key /\ ts[i].page = ts[j].page) => i = j

\* C15: the page-token store never holds two entries for one (search key,
\* page), and a getPageToken that follows a storePageToken for the same pair
\* returns the token just stored.
C15_OneEntryPerPair ==
  [][/\ NoDuplicatePair(tokens'.file)
     /\ NoDuplicatePair(tokens'.kv)
     /\ (/\ lastTok'.op = "get" /\ lastTok.op = "put"
         /\ lastTok'.arg.key = lastTok.arg.key
         /\ lastTok'.arg.page = lastTok.arg.page)
        => lastTok'.ret.token = lastTok.arg.token]_vars

\* C27: right after any get or put, the store holds no entry older than one
\* hour, and every entry that was one hour old or younger before the call is
\* still there (but for the entry a put replaces).
C27_HousekeepingExact ==
  [][lastTok'.op \in {"get", "put"} =>
       LET before == readTokens(impl, env, tokens)
           after == readTokens(impl, env, tokens')
       IN /\ \A i \in DOMAIN after : clock - after[i].timestamp <= oneHour
          /\ \A i \in DOMAIN before :
                (/\ clock - before[i].timestamp <= oneHour
                 /\ ~(/\ lastTok'.op = "put"
                      /\ before[i].key = lastTok'.arg.key
                      /\ before[i].page = lastTok'.arg.page))
                => \E j \in DOMAIN after : after[j] = before[i]]_vars

\* C30: a getPageToken made less than one hour after the latest
\* storePageToken of the same (search key, page) returns the token that was
\* stored, whatever was put and got for other pairs in between.
C30_RoundTrip ==
  lastTok.op = "get" =>
     \A e \in puts :
        (e.key = lastTok.arg.key /\ e.page = lastTok.arg.page) =>
           lastTok.ret.token = e.token

SameSearch(a, b) ==
  /\ a.query = b.query /\ a.country = b.country
  /\ a.language = b.language /\ a.category = b.category

\* C16: two filter sets that agree on query, country, language and category
\* get the same search key, whatever their subscriber bounds, hasEmail,
\* maxResults and page are.
C16_KeyOfFourFields ==
  (fp.pc = "done" /\ SameSearch(fp.a, fp.b)) => fp.keyA = fp.keyB

\* C16 witness: two filter sets of one search that differ in every other field
C16_Witness ==
  /\ fp.pc = "done"
  /\ SameSearch(fp.a, fp.b)
  /\ fp.a.page # fp.b.page
  /\ fp.a.minSubscribers # fp.b.minSubscribers
  /\ fp.a.hasEmail # fp.b.hasEmail
  /\ fp.a.maxResults # fp.b.maxResults
  /\ fp.keyA = fp.keyB

(* --------------------------- searchChannels claims --------------------- *)

LastIter == sc.iters[Len(sc.iters)]

\* C5: after a searchChannels call for page p whose last provider response
\* carried a next token, the page-token cache holds (fingerprint, p+1, token).
C5_NextTokenCached ==
  (sc.pc = "returned" /\ sc.iters # <<>> /\ LastIter.next # NoToken) =>
     \E i \in DOMAIN readTokens(impl, env, tokens) :
        LET e == readTokens(impl, env, tokens)[i]
        IN /\ e.key = generateSearchKey(sc.filters)
           /\ e.page = sc.filters.page + 1
           /\ e.token = LastIter.next

\* C7: the channel list searchChannels returns holds each channel id at most
\* once, also when the pages fetched in the call overlap.
C7_NoDuplicateChannels ==
  sc.pc = "returned" =>
     \A i, j \in DOMAIN sc.result.channels :
        i # j => sc.result.channels[i] # sc.result.channels[j]

\* C8: one searchChannels call issues at most 3 search.list calls; and when
\* 5 channels are wanted and every page yields 2 passing channels and a next
\* token (Scenario C at the scale of the model), the call makes exactly 3
\* and reports hasMore.
C8_AtMostThreeSearches ==
  /\ Len(sc.iters) <= 3
  /\ (/\ sc.pc = "returned"
      /\ sc.filters.maxResults = 5
      /\ \A i \in DOMAIN sc.iters : sc.iters[i].passed = 2 /\ sc.iters[i].next # NoToken)
     => (Len(sc.iters) = 3 /\ sc.result.hasMore)

\* C8 witness: the scaled Scenario C has run to its return
C8_Witness ==
  /\ sc.pc = "returned"
  /\ sc.filters.maxResults = 5
  /\ Len(sc.iters) = 3
  /\ \A i \in DOMAIN sc.iters : sc.iters[i].passed = 2 /\ sc.iters[i].next # NoToken
  /\ sc.result.hasMore

RECURSIVE SumCost(_)
SumCost(iters) ==
  IF iters = <<>> THEN 0
  ELSE 100 + Len(Head(iters).ids) + SumCost(Tail(iters))

\* C9: the quotaUsed searchChannels reports, and the amount it passes to
\* updateQuotaUsage for its key, is the sum over the iterations of 100 plus
\* the number of ids sent to channels.list, however few channels pass: two
\* candidates of which one passes give one channel and 102 units.
C9_QuotaIsSumOfIterations ==
  sc.pc = "returned" =>
     /\ sc.result.quotaUsed = SumCost(sc.iters)
     /\ sc.recorded = <<[key |-> sc.apiKey, n |-> SumCost(sc.iters)]>>
     /\ (Len(sc.iters) = 1 /\ Len(sc.iters[1].ids) = 2 /\ sc.iters[1].passed = 1)
        => (Len(sc.result.channels) = 1 /\ sc.result.quotaUsed = 102)

\* C9 witness: Scenario B at the scale of the model
C9_Witness ==
  /\ sc.pc = "returned"
  /\ sc.filters.minSubscribers = 10000 /\ sc.filters.hasEmail
  /\ Len(sc.iters) = 1
  /\ sc.iters[1].ids = <<"c2", "c1">>
  /\ sc.iters[1].passed = 1
  /\ sc.result.channels = <<"c1">>
  /\ sc.result.quotaUsed = 102
  /\ sc.recorded = <<[key |-> sc.apiKey, n |-> 102]>>

\* the quota of the provider calls that completed
RECURSIVE SunkCost(_)
SunkCost(iters) ==
  IF iters = <<>> THEN 0
  ELSE (IF Head(iters).search = "ok" THEN 100 ELSE 0)
       + (IF Head(iters).details \in {"ok", "empty"} THEN Len(Head(iters).ids) ELSE 0)
       + SunkCost(Tail(iters))

\* C10: when a provider call failed, the failing iteration is the last one,
\* and by the time the error is thrown to the caller updateQuotaUsage has
\* been called once, for the call's key, with the quota of every provider
\* call that completed (the 100 of the failing iteration's search included
\* when channels.list failed); before the catch block nothing is recorded.
C10_SunkQuotaRecordedBeforeThrow ==
  /\ (sc.pc = "threw" /\ sc.iters # <<>>) =>
        /\ LastIter.search = "fail" \/ LastIter.details = "fail"
        /\ \A i \in 1..(Len(sc.iters) - 1) :
              sc.iters[i].search = "ok" /\ sc.iters[i].details = "ok"
        /\ sc.recorded = <<[key |-> sc.apiKey, n |-> SunkCost(sc.iters)]>>
  /\ sc.pc = "catch" => sc.recorded = <<>>

\* C10 witness: channels.list failed in the second iteration and the error
\* has been thrown
C10_Witness ==
  /\ sc.pc = "threw"
  /\ Len(sc.iters) = 2
  /\ sc.iters[2].search = "ok" /\ sc.iters[2].details = "fail"
  /\ sc.recorded = <<[key |-> sc.apiKey, n |-> 200 + Len(sc.iters[1].ids)]>>

\* C17: hasMore in the result is true exactly when the last search.list
\* answer of the call carried a next page token.
C17_HasMoreIffNextToken ==
  (sc.pc = "returned" /\ sc.iters # <<>>) =>
     (sc.result.hasMore <=> LastIter.next # NoToken)

EmptyPage ==
  /\ sc.iters # <<>>
  /\ sc.pc # "details"
  /\ LastIter.search = "ok"
  /\ LastIter.details = "none"

\* C19: a search.list answer with no items ends the loop without an error:
\* the call goes on to return, and what it passes to updateQuotaUsage
\* includes the 100 units of that search.
C19_EmptyPageIsNormalStop ==
  EmptyPage =>
     /\ sc.pc \in {"finish", "returned"}
     /\ sc.pc = "returned" =>
           /\ sc.recorded = <<[key |-> sc.apiKey, n |-> SunkCost(sc.iters)]>>
           /\ sc.recorded[1].n >= 100 * Len(sc.iters)

\* C19 witness: the first page was empty and the call returned no channel
C19_Witness ==
  /\ EmptyPage
  /\ sc.pc = "returned"
  /\ Len(sc.iters) = 1
  /\ sc.result.channels = <<>>
  /\ sc.recorded = <<[key |-> sc.apiKey, n |-> 100]>>

\* C23: a key whose stored record was usable when the call sent its first
\* search.list is still usable in the stored pool whenever the call sends a
\* later search.list with it, also when another call recorded usage on that
\* key in between (the first iteration is the matter of C1).
C23_KeyUsableAtEveryIteration ==
  \A i \in DOMAIN sc.iters : sc.iters[1].usable => sc.iters[i].usable

\* C24: every channel searchChannels returns has a subscriber count within
\* the bounds of the filters: at least minSubscribers and at most
\* maxSubscribers, for each bound that is set.
C24_WithinSubscriberBounds ==
  sc.pc = "returned" =>
     \A i \in DOMAIN sc.result.channels :
        LET n == Channel(sc.result.channels[i]).subscriberCount
        IN /\ sc.filters.minSubscribers # 0 => n >= sc.filters.minSubscribers
           /\ sc.filters.maxSubscribers # 0 => n <= sc.filters.maxSubscribers

\* C25: no channel that is on the exclusion list appears in the result of
\* searchChannels, as POST /api/search gets it from the YouTubeService
\* instance.
C25_NoExcludedChannel ==
  svc.pc = "returned" =>
     \A i \in DOMAIN svc.channels : svc.channels[i] \notin excluded

\* C26: when filters.hasEmail is set, every channel searchChannels returns
\* carries a non-empty email, the one extractEmail gives for its description
\* and branding address; a channel for which extractEmail finds nothing is
\* not returned.
C26_HasEmailMeansEmail ==
  (sc.pc = "returned" /\ sc.filters.hasEmail) =>
     \A i \in DOMAIN sc.result.channels :
        LET ch == Channel(sc.result.channels[i])
        IN /\ sc.result.emails[i] # NoEmail
           /\ sc.result.emails[i] = extractEmail(ch.description, ch.email)

\* C26 witness: with hasEmail and no subscriber bound, of two candidates the
\* one without an address was dropped and the other returned with its email
C26_Witness ==
  /\ sc.pc = "returned"
  /\ sc.filters.hasEmail /\ sc.filters.minSubscribers = 0
  /\ sc.iters[1].ids = <<"c2", "c1">>
  /\ sc.iters[1].details = "ok"
  /\ sc.result.channels = <<"c1">>
  /\ sc.result.emails = <<(<<"biz", "@", "example", ".", "com">>)>>

\* the most one call can spend: maxAttempts iterations of one search.list
\* and one channels.list on a full page (50 ids in the program, MaxItems here)
MaxSpend == maxAttempts * (searchCost + MaxItems)

\* C29: with no other call running, one searchChannels call records usage
\* once and at most 3 * (100 + page size) units, so a key that was usable
\* when the call started using it ends the call at most that far past
\* 9899: the overshoot past the threshold stays below that amount.
C29_OvershootBounded ==
  sc.pc \in {"returned", "threw"} =>
     /\ Len(sc.recorded) <= 1
     /\ \A i \in DOMAIN sc.recorded : sc.recorded[i].n <= MaxSpend
     /\ (sc.iters # <<>> /\ sc.iters[1].usable) =>
           /\ apiKeys[sc.apiKey].quotaUsed <= (SafetyThreshold - 1) + MaxSpend
           /\ apiKeys[sc.apiKey].quotaUsed - SafetyThreshold < MaxSpend

\* C29 witness: a key selected at 9850 paid for three full pages and ended
\* the call past the threshold
C29_Witness ==
  /\ sc.pc = "returned"
  /\ Len(sc.iters) = maxAttempts
  /\ sc.iters[1].usable
  /\ \A i \in DOMAIN sc.iters : Len(sc.iters[i].ids) = 2
  /\ sc.recorded = <<[key |-> sc.apiKey, n |-> 306]>>
  /\ apiKeys[sc.apiKey].quotaUsed = 9850 + 306

(* ---------------------------- extractEmail claims ---------------------- *)

====
